---- MODULE Spec2Model ----
\* The CSV-to-COCO annotation aggregator of scripts/convert_to_coco.py:
\* read_split_list, parse_csv_boxes, collect_annotations_for_split and main,
\* run against a dataset directory that is drawn from bounded sets in Init;
\* and the copy loops of the layout migrators, scripts/reorganize_dataset.py
\* and scripts/optimize_structure.py.
EXTENDS Integers, Sequences, FiniteSets, TLC

VARIABLES
    splitFile,          \* <category_root>/sets/<split>.txt: [exists, lines]
    imageFiles,         \* the image files on disk: a set of [dir, stem, ext]
    csvFiles,           \* <subcat>/csv/<stem>.csv, by <<subcat, stem>>: [exists, header, rows]
    pc,                 \* position in collect_annotations_for_split
    image_stems,        \* the set of base names of the split
    todo,               \* the rest of sorted(image_stems), the for loop's iterator
    cur,                \* img_path, subcategory, width, height of the current stem
    images,             \* the image records
    anns,               \* the annotation records
    image_id_counter,
    ann_id_counter,
    category_root_exists,   \* whether <root>/blueberries exists
    sets_dir,           \* <category_root>/sets/<split>.txt, by split name
    args,               \* the command line: [splits, combined]
    main_pc,            \* position in main
    split_i,            \* the index in args.splits of the split of the for loops
    out_files,          \* the files written to the output directory, in order
    exit_status,        \* the status the process ended with, -1 while it runs
    migrator,           \* the migrator that runs
    source_files,       \* the files of the directory it copies from, by path
    target_files,       \* the files of the directory it copies to, by path
    pending,            \* the source files the copy loop has not reached
    mig_pc,             \* position in the migrator
    runs                \* the number of runs of the migrator that have ended

mainVars == <<category_root_exists, sets_dir, args, main_pc, split_i, out_files, exit_status>>

migVars == <<migrator, source_files, target_files, pending, mig_pc, runs>>

vars == <<splitFile, imageFiles, csvFiles, pc, image_stems, todo, cur,
          images, anns, image_id_counter, ann_id_counter, mainVars, migVars>>

disk == <<splitFile, imageFiles, csvFiles>>

\* ---------------------------------------------------------------- bounds

\* Lines of a split file, at most.
MaxLines == 3
\* Image files on disk, at most.
MaxFiles == 2
\* Data rows of an annotation file, at most.
MaxRows == 2
\* Split names on the command line, at most.
MaxSplits == 2
\* Files of the directory a migrator copies from, at most.
MaxSources == 2
\* Runs of a migrator over the same directories, at most.
MaxRuns == 2

\* --------------------------------------------------------------- strings

\* A file name or a line of text is a sequence of characters; SP is the
\* blank, 1 and 2 are the letters a and b, ordered as their code points are.
SP == 0
\* The underscore and the two parentheses.
US == 3
LP == 4
RP == 5

\* str.__lt__: lexicographic by code point, a proper prefix first.
RECURSIVE StrLess(_, _)
StrLess(s, t) ==
    IF t = <<>> THEN FALSE
    ELSE IF s = <<>> THEN TRUE
    ELSE IF Head(s) # Head(t) THEN Head(s) < Head(t)
    ELSE StrLess(Tail(s), Tail(t))

RECURSIVE lstrip(_)
lstrip(s) == IF s # <<>> /\ Head(s) = SP THEN lstrip(Tail(s)) ELSE s

RECURSIVE rstrip(_)
rstrip(s) ==
    IF s # <<>> /\ s[Len(s)] = SP THEN rstrip(SubSeq(s, 1, Len(s) - 1)) ELSE s

\* str.strip()
strip(s) == rstrip(lstrip(s))

\* A mis-ordering of the base names: shorter names first.
RECURSIVE sorted_by_length(_)
sorted_by_length(S) ==
    IF S = {} THEN <<>>
    ELSE LET m == CHOOSE x \in S : \A y \in S \ {x} :
                      \/ Len(x) < Len(y)
                      \/ Len(x) = Len(y) /\ StrLess(x, y)
         IN <<m>> \o sorted_by_length(S \ {m})

\* sorted(image_stems): the names in increasing order.
RECURSIVE sorted(_)
sorted(S) ==
    IF S = {} THEN <<>>
    ELSE LET m == CHOOSE x \in S : \A y \in S \ {x} : StrLess(x, y)
         IN <<m>> \o sorted(S \ {m})

Range(f) == {f[i] : i \in DOMAIN f}

\* ------------------------------------------------------- read_split_list

NoSplit == [exists |-> FALSE, lines |-> <<>>]

\* The stripped, non-empty lines of the split file, in file order.
read_split_list(split_file) ==
    IF ~split_file.exists THEN <<>>
    ELSE LET lines == [i \in 1..Len(split_file.lines) |-> strip(split_file.lines[i])]
         IN SelectSeq(lines, LAMBDA line : line # <<>>)

\* ------------------------------------------------------- parse_csv_boxes

\* A cell of a csv.DictReader row is a string, or None where the row is
\* shorter than the header; a default of row.get is a number.
None == [t |-> "none", s |-> "", n |-> 0]
Str(s) == [t |-> "str", s |-> s, n |-> 0]
Num(n) == [t |-> "num", s |-> "", n |-> n]

\* The numerals of the cell vocabulary that float() and int() accept.
FloatLit == ("0" :> 0) @@ ("1" :> 1) @@ ("2" :> 2) @@ ("3" :> 3) @@ ("-1" :> -1) @@ ("2.0" :> 2)
IntLit == ("0" :> 0) @@ ("1" :> 1) @@ ("2" :> 2) @@ ("3" :> 3) @@ ("-1" :> -1)

Returned(n) == [exc |-> "", v |-> n]
Raised(e) == [exc |-> e, v |-> 0]

Convert(v, lit) ==
    CASE v.t = "none" -> Raised("TypeError")
      [] v.t = "num" -> Returned(v.n)
      [] OTHER -> IF v.s \in DOMAIN lit THEN Returned(lit[v.s])
                  ELSE Raised("ValueError")

\* float(v) and int(v) of a cell or a default
float(v) == Convert(v, FloatLit)
int(v) == Convert(v, IntLit)

NoCsv == [exists |-> FALSE, header |-> <<>>, rows |-> <<>>]

\* csv.DictReader: the row as a dict over the header's columns, None for
\* the columns a short row does not reach.
DictRow(header, r) ==
    [c \in Range(header) |->
        LET i == CHOOSE k \in 1..Len(header) : header[k] = c
        IN IF i <= Len(r) THEN Str(r[i]) ELSE None]

\* csv.DictReader skips the rows that hold no field at all.
DictReader(csv) ==
    LET kept == SelectSeq(csv.rows, LAMBDA r : r # <<>>)
    IN [i \in 1..Len(kept) |-> DictRow(csv.header, kept[i])]

\* row.get(key, default)
get(row, key, default) == IF key \in DOMAIN row THEN row[key] ELSE default

Skip == [kind |-> "skip", box |-> <<>>]

\* A box whose area is not the product of its sides.
make_box_area_sum(x, y, width, height, label) ==
    [bbox |-> <<x, y, width, height>>, area |-> width + height, category_id |-> label]

\* Lines 54-58: the box of an accepted row.
make_box(x, y, width, height, label) ==
    [bbox |-> <<x, y, width, height>>, area |-> width * height, category_id |-> label]

\* The loop's iteration without the test for comment rows.
parse_row_without_comments(row) ==
    LET x == float(get(row, "x", Num(0)))
        y == float(get(row, "y", Num(0)))
        width == float(get(row, "width", get(row, "w", get(row, "dx", Num(0)))))
        height == float(get(row, "height", get(row, "h", get(row, "dy", Num(0)))))
        label == int(get(row, "label", Num(1)))
        evals == <<x, y, width, height, label>>
        failed == {i \in 1..5 : evals[i].exc # ""}
    IN IF failed # {}
       THEN LET first == CHOOSE i \in failed : \A j \in failed : i <= j
            IN IF evals[first].exc \in {"ValueError", "KeyError"}
               THEN Skip
               ELSE [kind |-> "raise", box |-> <<>>]
       ELSE IF width.v > 0 /\ height.v > 0
            THEN [kind |-> "box",
                  box |-> make_box(x.v, y.v, width.v, height.v, label.v)]
            ELSE Skip

\* One iteration of the loop over the reader: the row's box, "skip" (a
\* continue, a caught exception or a box without extent) or "raise" (an
\* exception the except clause does not catch).
parse_row(row) ==
    IF get(row, "#item", None) = None /\ "item" \notin DOMAIN row THEN Skip
    ELSE LET item_key == IF "#item" \in DOMAIN row THEN "#item" ELSE "item" IN
    IF item_key \notin DOMAIN row THEN Skip
    ELSE LET x == float(get(row, "x", Num(0)))
             y == float(get(row, "y", Num(0)))
             width == float(get(row, "width", get(row, "w", get(row, "dx", Num(0)))))
             height == float(get(row, "height", get(row, "h", get(row, "dy", Num(0)))))
             label == int(get(row, "label", Num(1)))
             evals == <<x, y, width, height, label>>
             failed == {i \in 1..5 : evals[i].exc # ""}
         IN IF failed # {}
            THEN LET first == CHOOSE i \in failed : \A j \in failed : i <= j
                 IN IF evals[first].exc \in {"ValueError", "KeyError"}
                    THEN Skip
                    ELSE [kind |-> "raise", box |-> <<>>]
            ELSE IF width.v > 0 /\ height.v > 0
                 THEN [kind |-> "box",
                       box |-> make_box(x.v, y.v, width.v, height.v, label.v)]
                 ELSE Skip

\* parse_csv_boxes: the boxes of the file's rows in file order, or raised
\* when a row raises what is not caught.
parse_csv_boxes(csv) ==
    IF ~csv.exists THEN [raised |-> FALSE, boxes |-> <<>>]
    ELSE LET rows == DictReader(csv)
             out == [i \in 1..Len(rows) |-> parse_row(rows[i])]
             hit == SelectSeq(out, LAMBDA o : o.kind = "box")
         IN IF \E i \in 1..Len(out) : out[i].kind = "raise"
            THEN [raised |-> TRUE, boxes |-> <<>>]
            ELSE [raised |-> FALSE, boxes |-> [i \in 1..Len(hit) |-> hit[i].box]]

\* ------------------------------------------ collect_annotations_for_split

subcategory_names == <<"healthy", "background">>

\* The extensions tried for a base name, in the order they are tried.
Exts == <<".png", ".jpg", ".JPG", ".PNG", ".jpeg", ".JPEG">>

\* The patterns of the fall-back scan: *.png, *.jpg, *.JPG.
GlobExts == {".png", ".jpg", ".JPG"}

category_id_map == ("healthy" :> 1) @@ ("background" :> 2)

\* category_id_map.get(subcategory, 1)
default_category_id(subcategory) ==
    IF subcategory \in DOMAIN category_id_map THEN category_id_map[subcategory] ELSE 1

\* The stems of the images the fall-back scan finds: every directory of
\* the category root but "sets", its images directory, the three patterns.
scan_image_stems(files) ==
    {p.stem : p \in {q \in files : q.dir # "sets" /\ q.ext \in GlobExts}}

\* The places a base name is looked for, <<subcategory index, extension
\* index>>, and the one the nested loops reach first.
Matches(files, stem) ==
    {m \in (1..Len(subcategory_names)) \X (1..Len(Exts)) :
        [dir |-> subcategory_names[m[1]], stem |-> stem, ext |-> Exts[m[2]]] \in files}

\* A search that tries the subcategories in the opposite order.
first_match_background_first(M) ==
    CHOOSE m \in M : \A o \in M \ {m} :
        o[1] < m[1] \/ (o[1] = m[1] /\ m[2] < o[2])

first_match(M) ==
    CHOOSE m \in M : \A o \in M \ {m} :
        m[1] < o[1] \/ (m[1] = o[1] /\ m[2] < o[2])

NotFound == [found |-> FALSE, subcategory |-> "", ext |-> ""]

\* The search of one base name: img_path (its extension) and subcategory.
resolve(files, stem) ==
    LET M == Matches(files, stem)
    IN IF M = {} THEN NotFound
       ELSE LET m == first_match(M)
            IN [found |-> TRUE, subcategory |-> subcategory_names[m[1]], ext |-> Exts[m[2]]]

\* The site of the annotation file of a base name of a subcategory.
csv_path(subcategory, stem) == <<subcategory, stem>>

NoCur == [stem |-> <<>>, subcategory |-> "", ext |-> "", width |-> 0, height |-> 0]

image_record(id, subcategory, stem, ext, width, height) ==
    [id |-> id,
     file_name |-> [subcategory |-> subcategory, stem |-> stem, ext |-> ext],
     width |-> width,
     height |-> height]

\* box.get('category_id', default_category_id)
box_category(box, default) ==
    IF "category_id" \in DOMAIN box THEN box.category_id ELSE default

\* Box records numbered one too high.
box_annotations_off_by_one(boxes, first_id, image_id, default) ==
    [k \in 1..Len(boxes) |->
        [id |-> first_id + k,
         image_id |-> image_id,
         category_id |-> box_category(boxes[k], default),
         bbox |-> boxes[k].bbox,
         area |-> boxes[k].area,
         iscrowd |-> 0]]

\* Box records that refer to the image after theirs.
box_annotations_next_image(boxes, first_id, image_id, default) ==
    [k \in 1..Len(boxes) |->
        [id |-> first_id + k - 1,
         image_id |-> image_id + 1,
         category_id |-> box_category(boxes[k], default),
         bbox |-> boxes[k].bbox,
         area |-> boxes[k].area,
         iscrowd |-> 0]]

\* The annotation records of an image's boxes, numbered from first_id.
box_annotations(boxes, first_id, image_id, default) ==
    [k \in 1..Len(boxes) |->
        [id |-> first_id + k - 1,
         image_id |-> image_id,
         category_id |-> box_category(boxes[k], default),
         bbox |-> boxes[k].bbox,
         area |-> boxes[k].area,
         iscrowd |-> 0]]

\* A full-image annotation with the sides exchanged.
full_image_annotation_swapped(id, image_id, default, width, height) ==
    [id |-> id,
     image_id |-> image_id,
     category_id |-> default,
     bbox |-> <<0, 0, height, width>>,
     area |-> width * height,
     iscrowd |-> 0]

\* The full-image annotation of an image without boxes.
full_image_annotation(id, image_id, default, width, height) ==
    [id |-> id,
     image_id |-> image_id,
     category_id |-> default,
     bbox |-> <<0, 0, width, height>>,
     area |-> width * height,
     iscrowd |-> 0]

\* The sizes image_size reads from the image files.
Dims == {<<1, 1>>, <<2, 3>>}

\* The sizes image_size may find for the file of a base name. A run of
\* main opens every file twice with --combined, and finds the size that
\* is on disk both times: 1 x 1 for the file a, 2 x 3 for any other.
image_size(stem) ==
    IF main_pc = "none" THEN Dims
    ELSE IF stem = <<1>> THEN {<<1, 1>>} ELSE {<<2, 3>>}

\* Lines 71-75: the base names the split file lists.
ReadSplit ==
    /\ pc = "start"
    /\ image_stems' = Range(read_split_list(splitFile))
    /\ IF image_stems' = {}
       THEN pc' = "scan" /\ todo' = <<>>
       ELSE pc' = "loop" /\ todo' = sorted(image_stems')
    /\ UNCHANGED <<mainVars, migVars, disk, cur, images, anns, image_id_counter, ann_id_counter>>

\* Lines 75-84: no name listed, fall back to the images found on disk.
ScanImages ==
    /\ pc = "scan"
    /\ image_stems' = scan_image_stems(imageFiles)
    /\ todo' = sorted(image_stems')
    /\ pc' = "loop"
    /\ UNCHANGED <<mainVars, migVars, disk, cur, images, anns, image_id_counter, ann_id_counter>>

\* Lines 99-118: a base name that no subcategory holds.
SkipStem ==
    /\ pc = "loop"
    /\ todo # <<>>
    /\ ~resolve(imageFiles, Head(todo)).found
    /\ todo' = Tail(todo)
    /\ UNCHANGED <<mainVars, migVars, disk, pc, image_stems, cur, images, anns, image_id_counter, ann_id_counter>>

\* Lines 99-126: a base name that is found; its image record.
AddImage ==
    /\ pc = "loop"
    /\ todo # <<>>
    /\ LET stem == Head(todo)
           r == resolve(imageFiles, stem)
       IN /\ r.found
          /\ \E wh \in image_size(stem) :
                /\ cur' = [stem |-> stem, subcategory |-> r.subcategory, ext |-> r.ext,
                           width |-> wh[1], height |-> wh[2]]
                /\ images' = Append(images,
                       image_record(image_id_counter, r.subcategory, stem, r.ext, wh[1], wh[2]))
    /\ pc' = "annotate"
    /\ UNCHANGED <<mainVars, migVars, disk, image_stems, todo, anns, image_id_counter, ann_id_counter>>

\* The end of an iteration, line 173.
NextStem ==
    /\ image_id_counter' = image_id_counter + 1
    /\ todo' = Tail(todo)
    /\ cur' = NoCur
    /\ pc' = "loop"
    /\ UNCHANGED <<mainVars, migVars, disk, image_stems, images>>

\* Lines 135-149: the annotation file has boxes, one record for each.
AnnotateBoxes ==
    /\ pc = "annotate"
    /\ LET csv == csvFiles[csv_path(cur.subcategory, cur.stem)]
           parsed == parse_csv_boxes(csv)
       IN /\ csv.exists
          /\ ~parsed.raised
          /\ parsed.boxes # <<>>
          /\ anns' = anns \o box_annotations(parsed.boxes, ann_id_counter, image_id_counter,
                                             default_category_id(cur.subcategory))
          /\ ann_id_counter' = ann_id_counter + Len(parsed.boxes)
    /\ NextStem

\* Lines 150-160: the annotation file has no box.
AnnotateEmptyCsv ==
    /\ pc = "annotate"
    /\ LET csv == csvFiles[csv_path(cur.subcategory, cur.stem)]
           parsed == parse_csv_boxes(csv)
       IN /\ csv.exists
          /\ ~parsed.raised
          /\ parsed.boxes = <<>>
    /\ anns' = Append(anns, full_image_annotation(ann_id_counter, image_id_counter,
                          default_category_id(cur.subcategory), cur.width, cur.height))
    /\ ann_id_counter' = ann_id_counter + 1
    /\ NextStem

\* Lines 161-171: there is no annotation file.
AnnotateNoCsv ==
    /\ pc = "annotate"
    /\ ~csvFiles[csv_path(cur.subcategory, cur.stem)].exists
    /\ anns' = Append(anns, full_image_annotation(ann_id_counter, image_id_counter,
                          default_category_id(cur.subcategory), cur.width, cur.height))
    /\ ann_id_counter' = ann_id_counter + 1
    /\ NextStem

\* Line 136: parse_csv_boxes raises, and so does the aggregation.
ParseRaises ==
    /\ pc = "annotate"
    /\ LET csv == csvFiles[csv_path(cur.subcategory, cur.stem)]
       IN csv.exists /\ parse_csv_boxes(csv).raised
    /\ pc' = "raised"
    /\ UNCHANGED <<mainVars, migVars, disk, image_stems, todo, cur, images, anns, image_id_counter, ann_id_counter>>

\* Line 175: the loop is over.
Return ==
    /\ pc = "loop"
    /\ todo = <<>>
    /\ pc' = "returned"
    /\ UNCHANGED <<mainVars, migVars, disk, image_stems, todo, cur, images, anns, image_id_counter, ann_id_counter>>

Next ==
    \/ ReadSplit
    \/ ScanImages
    \/ SkipStem
    \/ AddImage
    \/ AnnotateBoxes
    \/ AnnotateEmptyCsv
    \/ AnnotateNoCsv
    \/ ParseRaises
    \/ Return

\* ------------------------------------------------------------------ main

categories == <<[id |-> 1, name |-> "healthy"], [id |-> 2, name |-> "background_without_leaves"]>>

\* Lines 177-201: the COCO dict of a split, its description by the split
\* and the kind of file.
build_coco_dict(imgs, as, cats, description) ==
    [description |-> description, images |-> imgs, annotations |-> as, categories |-> cats]

\* An output path that leaves the split out of the file name.
output_file_without_split(kind, split) == <<kind, "">>

\* Lines 258 and 276: blueberries_instances_<split>.json and
\* combined_instances_<split>.json.
output_file(kind, split) == <<kind, split>>

\* A test of the result that takes every split for one with images.
no_images_never(imgs) == FALSE

\* Lines 251 and 273: not images.
no_images(imgs) == imgs = <<>>

\* A test of the category root that lets a missing one pass.
category_root_missing_never(exists) == FALSE

\* Line 238: not category_root.exists().
category_root_missing(exists) == ~exists

\* The for loop main is in: the per-split files or the combined ones.
Kind == IF main_pc \in {"loop", "collect"} THEN "blueberries" ELSE "combined"

aggregation == <<pc, image_stems, todo, cur, images, anns, image_id_counter, ann_id_counter>>

\* Lines 233-246: the category root is looked for; without it main exits.
MainCheckRoot ==
    /\ main_pc = "start"
    /\ IF category_root_missing(category_root_exists)
       THEN main_pc' = "exited" /\ exit_status' = 1 /\ split_i' = split_i
       ELSE main_pc' = "loop" /\ exit_status' = exit_status /\ split_i' = 1
    /\ UNCHANGED <<category_root_exists, sets_dir, args, out_files, migVars, disk, aggregation>>

\* Lines 247-249 and 271-272: the next split of the list is aggregated.
MainCollect ==
    /\ main_pc \in {"loop", "combined_loop"}
    /\ split_i <= Len(args.splits)
    /\ main_pc' = (IF main_pc = "loop" THEN "collect" ELSE "combined_collect")
    /\ splitFile' = sets_dir[args.splits[split_i]]
    /\ pc' = "start"
    /\ image_stems' = {}
    /\ todo' = <<>>
    /\ cur' = NoCur
    /\ images' = <<>>
    /\ anns' = <<>>
    /\ image_id_counter' = 1
    /\ ann_id_counter' = 1
    /\ UNCHANGED <<category_root_exists, sets_dir, args, split_i, out_files, exit_status,
                   migVars, imageFiles, csvFiles>>

\* Lines 251-253 and 273: a split without images; nothing is written.
MainSkipEmpty ==
    /\ main_pc \in {"collect", "combined_collect"}
    /\ pc = "returned"
    /\ no_images(images)
    /\ main_pc' = (IF main_pc = "collect" THEN "loop" ELSE "combined_loop")
    /\ split_i' = split_i + 1
    /\ pc' = "idle"
    /\ UNCHANGED <<category_root_exists, sets_dir, args, out_files, exit_status, migVars, disk,
                   image_stems, todo, cur, images, anns, image_id_counter, ann_id_counter>>

\* Lines 255-265 and 274-279: the COCO dict of the split is written.
MainWrite ==
    /\ main_pc \in {"collect", "combined_collect"}
    /\ pc = "returned"
    /\ ~no_images(images)
    /\ out_files' = Append(out_files,
           [file |-> output_file(Kind, args.splits[split_i]),
            dict |-> build_coco_dict(images, anns, categories, <<args.splits[split_i], Kind>>)])
    /\ main_pc' = (IF main_pc = "collect" THEN "loop" ELSE "combined_loop")
    /\ split_i' = split_i + 1
    /\ pc' = "idle"
    /\ UNCHANGED <<category_root_exists, sets_dir, args, exit_status, migVars, disk,
                   image_stems, todo, cur, images, anns, image_id_counter, ann_id_counter>>

\* Lines 267-271: with --combined, the list is gone through again.
MainCombined ==
    /\ main_pc = "loop"
    /\ split_i > Len(args.splits)
    /\ args.combined
    /\ main_pc' = "combined_loop"
    /\ split_i' = 1
    /\ UNCHANGED <<category_root_exists, sets_dir, args, out_files, exit_status, migVars, disk,
                   aggregation>>

\* Line 281: main returns.
MainDone ==
    /\ \/ main_pc = "loop" /\ ~args.combined
       \/ main_pc = "combined_loop"
    /\ split_i > Len(args.splits)
    /\ main_pc' = "done"
    /\ exit_status' = 0
    /\ UNCHANGED <<category_root_exists, sets_dir, args, split_i, out_files, migVars, disk,
                   aggregation>>

NextMain ==
    \/ MainCheckRoot
    \/ MainCollect
    \/ MainSkipEmpty
    \/ MainWrite
    \/ MainCombined
    \/ MainDone
    \/ Next

\* --------------------------------------------------- the datasets on disk

Stems == {<<1>>, <<1, 2>>, <<2>>}

\* The lines a split file is made of: names, padded names, blank lines.
Lines == Stems \cup {<<SP>>, <<SP, 1>>, <<2, SP>>}

SeqsUpTo(S, n) == UNION {[1..k -> S] : k \in 0..n}

RECURSIVE SubsetsUpTo(_, _)
SubsetsUpTo(S, n) ==
    IF n = 0 THEN {{}}
    ELSE LET smaller == SubsetsUpTo(S, n - 1)
         IN smaller \cup {T \cup {x} : T \in smaller, x \in S}

SplitFiles == {NoSplit} \cup {[exists |-> TRUE, lines |-> ls] : ls \in SeqsUpTo(Lines, MaxLines)}

Sites == Range(subcategory_names) \X Stems
HealthySites == {"healthy"} \X Stems

Paths(dirs, exts) == {[dir |-> d, stem |-> s, ext |-> e] : d \in dirs, s \in Stems, e \in exts}

\* The annotation files of the examples.
Header == <<"#item", "x", "y", "width", "height", "label">>
Csv(header, rows) == [exists |-> TRUE, header |-> header, rows |-> rows]
CsvEmpty == Csv(Header, <<>>)
CsvTwoBoxes == Csv(Header, << <<"0", "0", "0", "2", "3", "1">>, <<"1", "1", "1", "3", "2", "2">> >>)
CsvShortRow == Csv(Header, << <<"0", "0", "0", "2", "3", "1">>, <<"1", "1", "1", "3">> >>)
SmallCsvs == {CsvEmpty, CsvTwoBoxes, CsvShortRow}

NoCsvFiles == [site \in Sites |-> NoCsv]

\* At most one annotation file, at one of the sites S, of contents C.
OneCsv(S, C) == {NoCsvFiles} \cup {[NoCsvFiles EXCEPT ![site] = c] : site \in S, c \in C}

SplitNames == {"train", "val"}

\* main does not run.
NoMain ==
    /\ category_root_exists = TRUE
    /\ sets_dir = [n \in SplitNames |-> NoSplit]
    /\ args = [splits |-> <<>>, combined |-> FALSE]
    /\ main_pc = "none"
    /\ split_i = 0
    /\ out_files = <<>>
    /\ exit_status = -1

\* ---------------------------------------------------------- the migrators

\* The contents of a file: the picture of an image file, the annotations
\* of a JSON file, or the header and rows of a CSV file.
Image(n) == [image |-> n, annotations |-> <<>>, csv |-> NoCsv]
Json(annotations) == [image |-> 0, annotations |-> annotations, csv |-> NoCsv]
CsvFile(csv) == [image |-> 0, annotations |-> <<>>, csv |-> csv]

Path(dir, stem, ext) == [dir |-> dir, stem |-> stem, ext |-> ext]

\* open(path, 'w') and shutil.copy2: the file at the path has the contents,
\* whether it was there or not.
Write(files, path, contents) ==
    [q \in DOMAIN files \cup {path} |-> IF q = path THEN contents ELSE files[q]]

\* if not target.exists(): the file is written if it is not there.
WriteIfAbsent(files, path, contents) ==
    IF path \in DOMAIN files THEN files ELSE Write(files, path, contents)

\* f"{n}" of an integer
Numeral(n) == CHOOSE s \in DOMAIN IntLit : IntLit[s] = n

\* reorganize_dataset.py, json_to_csv: the header, and a row for every
\* annotation with a bbox of four, numbered as the annotations are, with
\* label 0 for category 0 and label 1 for any other.
json_to_csv(annotations) ==
    LET kept == SelectSeq([i \in 1..Len(annotations) |-> i],
                          LAMBDA i : Len(annotations[i].bbox) = 4)
        row(i) == LET bbox == annotations[i].bbox
                      label == IF annotations[i].category_id # 0 THEN 1 ELSE 0
                  IN <<Numeral(i - 1), Numeral(bbox[1]), Numeral(bbox[2]),
                       Numeral(bbox[3]), Numeral(bbox[4]), Numeral(label)>>
    IN Csv(Header, [k \in 1..Len(kept) |-> row(kept[k])])

\* optimize_structure.py, normalize_filename: the stem with "_" for every
\* blank and without parentheses.
normalize_filename(stem) ==
    LET replaced == [i \in 1..Len(stem) |-> IF stem[i] = SP THEN US ELSE stem[i]]
    IN SelectSeq(replaced, LAMBDA c : c \notin {LP, RP})

\* suffix.lower() of the extensions of the model
lower(ext) == IF ext = ".JPG" THEN ".jpg" ELSE ext

SourceDir == "without_augmentation"

\* reorganize_blueberries: source_dir.glob('*.JPG')
ReorganizeBlueberries ==
    /\ migrator = "reorganize_blueberries"
    /\ mig_pc = "start"
    /\ pending' = {p \in DOMAIN source_files : p.dir = SourceDir /\ p.ext = ".JPG"}
    /\ mig_pc' = "copy"
    /\ UNCHANGED <<mainVars, disk, aggregation, migrator, source_files, target_files, runs>>

\* reorganize_blueberries, an iteration of the loop: the image, the JSON
\* file of its name if there is one, and the CSV made of it, each one
\* unless the target is there.
CopyBlueberry ==
    /\ migrator = "reorganize_blueberries"
    /\ mig_pc = "copy"
    /\ \E jpg_file \in pending :
          LET json_file == Path(SourceDir, jpg_file.stem, ".json")
              with_image == WriteIfAbsent(target_files,
                                Path("images", jpg_file.stem, jpg_file.ext),
                                source_files[jpg_file])
              with_json == WriteIfAbsent(with_image,
                                Path("json", jpg_file.stem, ".json"),
                                source_files[json_file])
              with_csv == WriteIfAbsent(with_json,
                                Path("csv", jpg_file.stem, ".csv"),
                                CsvFile(json_to_csv(source_files[json_file].annotations)))
          IN /\ target_files' = (IF json_file \in DOMAIN source_files
                                 THEN with_csv ELSE with_image)
             /\ pending' = pending \ {jpg_file}
    /\ UNCHANGED <<mainVars, disk, aggregation, migrator, source_files, mig_pc, runs>>

\* reorganize_backgrounds: source_dir.glob('*.jpg')
ReorganizeBackgrounds ==
    /\ migrator = "reorganize_backgrounds"
    /\ mig_pc = "start"
    /\ pending' = {p \in DOMAIN source_files : p.dir = SourceDir /\ p.ext = ".jpg"}
    /\ mig_pc' = "copy"
    /\ UNCHANGED <<mainVars, disk, aggregation, migrator, source_files, target_files, runs>>

\* reorganize_backgrounds, an iteration of the loop: the image and a CSV
\* of the header only, each one unless the target is there.
CopyBackground ==
    /\ migrator = "reorganize_backgrounds"
    /\ mig_pc = "copy"
    /\ \E jpg_file \in pending :
          LET with_image == WriteIfAbsent(target_files,
                                Path("images", jpg_file.stem, jpg_file.ext),
                                source_files[jpg_file])
          IN /\ target_files' = WriteIfAbsent(with_image,
                                    Path("csv", jpg_file.stem, ".csv"), CsvFile(CsvEmpty))
             /\ pending' = pending \ {jpg_file}
    /\ UNCHANGED <<mainVars, disk, aggregation, migrator, source_files, mig_pc, runs>>

\* The files of a directory of the source that a loop of
\* move_to_subcategory copies: by suffix.lower().
Moved(dir) ==
    {p \in DOMAIN source_files :
        /\ p.dir = dir
        /\ lower(p.ext) \in (CASE dir = "images" -> {".jpg", ".jpeg", ".png"}
                               [] dir = "csv" -> {".csv"}
                               [] OTHER -> {".json"})}

\* The extension of the target: .jpg for every image.
target_ext(dir) ==
    CASE dir = "images" -> ".jpg" [] dir = "csv" -> ".csv" [] OTHER -> ".json"

\* shutil.copy2 of a file of the source to its normalized name in the
\* directory of the target, whether the target is there or not.
copy2(file, dir) ==
    Write(target_files, Path(dir, normalize_filename(file.stem), target_ext(dir)),
          source_files[file])

\* move_to_subcategory: (source / "images").iterdir()
MoveToSubcategory ==
    /\ migrator = "move_to_subcategory"
    /\ mig_pc = "start"
    /\ pending' = Moved("images")
    /\ mig_pc' = "images"
    /\ UNCHANGED <<mainVars, disk, aggregation, migrator, source_files, target_files, runs>>

\* An iteration of the loop over the images: the copy as <stem>.jpg.
MoveImage ==
    /\ migrator = "move_to_subcategory"
    /\ mig_pc = "images"
    /\ \E file \in pending :
          /\ target_files' = copy2(file, "images")
          /\ pending' = pending \ {file}
    /\ UNCHANGED <<mainVars, disk, aggregation, migrator, source_files, mig_pc, runs>>

\* (source / "csv").iterdir()
MoveCsvs ==
    /\ migrator = "move_to_subcategory"
    /\ mig_pc = "images"
    /\ pending = {}
    /\ pending' = Moved("csv")
    /\ mig_pc' = "csv"
    /\ UNCHANGED <<mainVars, disk, aggregation, migrator, source_files, target_files, runs>>

\* An iteration of the loop over the CSV files.
MoveCsv ==
    /\ migrator = "move_to_subcategory"
    /\ mig_pc = "csv"
    /\ \E file \in pending :
          /\ target_files' = copy2(file, "csv")
          /\ pending' = pending \ {file}
    /\ UNCHANGED <<mainVars, disk, aggregation, migrator, source_files, mig_pc, runs>>

\* (source / "json").iterdir()
MoveJsons ==
    /\ migrator = "move_to_subcategory"
    /\ mig_pc = "csv"
    /\ pending = {}
    /\ pending' = Moved("json")
    /\ mig_pc' = "json"
    /\ UNCHANGED <<mainVars, disk, aggregation, migrator, source_files, target_files, runs>>

\* An iteration of the loop over the JSON files.
MoveJson ==
    /\ migrator = "move_to_subcategory"
    /\ mig_pc = "json"
    /\ \E file \in pending :
          /\ target_files' = copy2(file, "json")
          /\ pending' = pending \ {file}
    /\ UNCHANGED <<mainVars, disk, aggregation, migrator, source_files, mig_pc, runs>>

\* The migrator returns when its last loop ends.
MigratorReturns ==
    /\ mig_pc \in {"copy", "json"}
    /\ pending = {}
    /\ mig_pc' = "done"
    /\ runs' = runs + 1
    /\ UNCHANGED <<mainVars, disk, aggregation, migrator, source_files, target_files, pending>>

\* The migrator is run again over the same directories.
RunAgain ==
    /\ mig_pc = "done"
    /\ runs < MaxRuns
    /\ mig_pc' = "start"
    /\ UNCHANGED <<mainVars, disk, aggregation, migrator, source_files, target_files, pending, runs>>

NextMigrate ==
    \/ ReorganizeBlueberries
    \/ CopyBlueberry
    \/ ReorganizeBackgrounds
    \/ CopyBackground
    \/ MoveToSubcategory
    \/ MoveImage
    \/ MoveCsvs
    \/ MoveCsv
    \/ MoveJsons
    \/ MoveJson
    \/ MigratorReturns
    \/ RunAgain

\* No migrator runs.
NoMigration ==
    /\ migrator = ""
    /\ source_files = <<>>
    /\ target_files = <<>>
    /\ pending = {}
    /\ mig_pc = "none"
    /\ runs = 0

InitRun ==
    /\ NoMain
    /\ NoMigration
    /\ pc = "start"
    /\ image_stems = {}
    /\ todo = <<>>
    /\ cur = NoCur
    /\ images = <<>>
    /\ anns = <<>>
    /\ image_id_counter = 1
    /\ ann_id_counter = 1

\* Any split file; .jpg images of the subcategory healthy.
Init ==
    /\ splitFile \in SplitFiles
    /\ imageFiles \in SubsetsUpTo(Paths({"healthy"}, {".jpg"}), MaxFiles)
    /\ csvFiles \in OneCsv(HealthySites, SmallCsvs)
    /\ InitRun

Spec == Init /\ [][Next]_vars

Split(lines) == [exists |-> TRUE, lines |-> lines]

\* No split file, an empty one, one of blank lines, one that lists b then a.
LayoutSplits == {NoSplit, Split(<<>>), Split(<< <<SP>> >>), Split(<< <<2>>, <<1>> >>)}

\* Images named a or b under any extension in the two subcategories, and
\* .jpg images in a directory that is no subcategory.
LayoutPaths ==
    {p \in Paths(Range(subcategory_names), Range(Exts)) \cup Paths({"other"}, {".jpg"}) :
        p.stem \in {<<1>>, <<2>>}}

\* Any layout of the images; a listed, an empty or a missing split file.
InitLayout ==
    /\ splitFile \in LayoutSplits
    /\ imageFiles \in SubsetsUpTo(LayoutPaths, MaxFiles)
    /\ csvFiles \in OneCsv(Sites, SmallCsvs)
    /\ InitRun

SpecLayout == InitLayout /\ [][Next]_vars

\* The split files of the runs of main: none, one that lists a, one that lists ab.
MainSplits == {NoSplit, Split(<< <<1>> >>), Split(<< <<1, 2>> >>)}

\* main, on any list of split names, with and without --combined; .jpg
\* images of the subcategory healthy, or no category root and nothing in it.
InitMain ==
    /\ args \in [splits : SeqsUpTo(SplitNames, MaxSplits) \ {<<>>}, combined : BOOLEAN]
    /\ category_root_exists \in BOOLEAN
    /\ IF category_root_exists
       THEN /\ sets_dir \in [SplitNames -> MainSplits]
            /\ imageFiles \in SubsetsUpTo(Paths({"healthy"}, {".jpg"}), MaxFiles)
            /\ csvFiles \in OneCsv(HealthySites, SmallCsvs)
       ELSE /\ sets_dir = [n \in SplitNames |-> NoSplit]
            /\ imageFiles = {}
            /\ csvFiles = NoCsvFiles
    /\ main_pc = "start"
    /\ split_i = 0
    /\ out_files = <<>>
    /\ exit_status = -1
    /\ splitFile = NoSplit
    /\ pc = "idle"
    /\ image_stems = {}
    /\ todo = <<>>
    /\ cur = NoCur
    /\ images = <<>>
    /\ anns = <<>>
    /\ image_id_counter = 1
    /\ ann_id_counter = 1
    /\ NoMigration

SpecMain == InitMain /\ [][NextMain]_vars

\* The headers of the annotation files: the migrators' header, one without
\* a label column, the synonyms of width and height, no item column, and
\* the item column last.
Headers ==
    {Header,
     <<"#item", "x", "y", "width", "height">>,
     <<"item", "x", "y", "w", "h", "label">>,
     <<"#item", "x", "y", "dx", "dy", "label">>,
     <<"x", "y", "width", "height", "label">>,
     <<"x", "y", "width", "height", "label", "#item">>}

\* The rows: a good one, the same with one cell changed, and short ones.
Rows ==
    {<<"0", "0", "0", "2", "3", "2">>,
     <<"0", "-1", "0", "2", "3", "2">>,
     <<"0", "0", "0", "0", "3", "2">>,
     <<"0", "0", "0", "abc", "3", "2">>,
     <<"0", "0", "0", "2", "3", "0">>,
     <<"0", "0", "0", "2", "3", "2.0">>,
     <<"0", "1", "1", "3", "2">>,
     <<"0", "abc", "0">>,
     <<"0">>,
     <<>>}

RichCsvs == {NoCsv} \cup {Csv(h, rows) : h \in Headers, rows \in SeqsUpTo(Rows, MaxRows)}

\* One image a.jpg, in either subcategory, and any annotation file for it.
InitCsv ==
    /\ splitFile \in {NoSplit, Split(<< <<2>>, <<1>> >>)}
    /\ \E d \in Range(subcategory_names) :
          /\ imageFiles = {[dir |-> d, stem |-> <<1>>, ext |-> ".jpg"]}
          /\ csvFiles \in {[NoCsvFiles EXCEPT ![<<d, <<1>>>>] = c] : c \in RichCsvs}
    /\ InitRun

SpecCsv == InitCsv /\ [][Next]_vars

\* The names of the files a migrator finds: a, a(), "a b" and a_b.
MigStems == {<<1>>, <<1, LP, RP>>, <<1, SP, 2>>, <<1, US, 2>>}

Migrators == {"reorganize_blueberries", "reorganize_backgrounds", "move_to_subcategory"}

\* The paths a migrator may find in its source, and the ones that may be
\* in its target before it runs.
SourcePaths(m) ==
    CASE m = "reorganize_blueberries" ->
            {Path(SourceDir, s, e) : s \in {<<1>>, <<1, SP, 2>>}, e \in {".JPG", ".json"}}
      [] m = "reorganize_backgrounds" ->
            {Path(SourceDir, s, e) : s \in {<<1>>, <<1, SP, 2>>}, e \in {".jpg", ".JPG"}}
      [] OTHER ->
            {Path("images", s, e) : s \in MigStems, e \in {".jpg", ".png"}}
                \cup {Path("csv", s, ".csv") : s \in {<<1>>, <<1, LP, RP>>}}
                \cup {Path("json", s, ".json") : s \in {<<1>>, <<1, LP, RP>>}}

TargetPaths(m) ==
    CASE m = "reorganize_blueberries" ->
            {Path("images", <<1>>, ".JPG"), Path("json", <<1>>, ".json"), Path("csv", <<1>>, ".csv")}
      [] m = "reorganize_backgrounds" ->
            {Path("images", <<1>>, ".jpg"), Path("csv", <<1>>, ".csv")}
      [] OTHER ->
            {Path("images", <<1>>, ".jpg"), Path("csv", <<1>>, ".csv"), Path("json", <<1>>, ".json")}

Box4 == <<0, 0, 2, 3>>

\* What a file of the source may hold, by its extension.
Contents(path) ==
    CASE path.ext = ".json" ->
            {Json(<<>>),
             Json(<<[bbox |-> Box4, category_id |-> 0]>>),
             Json(<<[bbox |-> <<>>, category_id |-> 1], [bbox |-> Box4, category_id |-> 2]>>)}
      [] path.ext = ".csv" -> {CsvFile(CsvEmpty), CsvFile(CsvTwoBoxes)}
      [] OTHER -> {Image(1), Image(2)}

\* What a file of the target holds that was there before the run.
OldContents(path) ==
    CASE path.ext = ".json" -> Json(<<[bbox |-> Box4, category_id |-> 1]>>)
      [] path.ext = ".csv" -> CsvFile(Csv(Header, << <<"0", "1", "1", "1", "1", "1">> >>))
      [] OTHER -> Image(0)

\* The directories of the given paths, of any contents.
RECURSIVE Files(_)
Files(P) ==
    IF P = {} THEN {<<>>}
    ELSE LET p == CHOOSE q \in P : TRUE
         IN {Write(f, p, c) : f \in Files(P \ {p}), c \in Contents(p)}

\* A migrator at its start, over a source of up to MaxSources files and a
\* target that is empty or holds one file from before.
InitMigrate ==
    /\ migrator \in Migrators
    /\ \E P \in SubsetsUpTo(SourcePaths(migrator), MaxSources) : source_files \in Files(P)
    /\ \E T \in SubsetsUpTo(TargetPaths(migrator), 1) :
          target_files = [t \in T |-> OldContents(t)]
    /\ pending = {}
    /\ mig_pc = "start"
    /\ runs = 0
    /\ NoMain
    /\ splitFile = NoSplit
    /\ imageFiles = {}
    /\ csvFiles = NoCsvFiles
    /\ pc = "idle"
    /\ image_stems = {}
    /\ todo = <<>>
    /\ cur = NoCur
    /\ images = <<>>
    /\ anns = <<>>
    /\ image_id_counter = 1
    /\ ann_id_counter = 1

SpecMigrate == InitMigrate /\ [][NextMigrate]_vars

\* ------------------------------------------------------------ properties

\* What the properties say of a returned result, stated from the files on
\* disk and not from the steps of the aggregation.

\* The names the split file lists, blank lines apart.
ListedNames == {strip(l) : l \in Range(splitFile.lines)} \ {<<>>}

\* The base name is on disk in a subcategory under a tried extension.
Resolvable(stem) ==
    \E p \in imageFiles :
        p.stem = stem /\ p.dir \in Range(subcategory_names) /\ p.ext \in Range(Exts)

\* The rank of s in S: 1 for the smallest name.
RankIn(s, S) == Cardinality({t \in S : t = s \/ StrLess(t, s)})

AnnsOf(id) == SelectSeq(anns, LAMBDA a : a.image_id = id)

CsvOf(img) == csvFiles[<<img.file_name.subcategory, img.file_name.stem>>]

Bboxes(as) == [k \in 1..Len(as) |-> as[k].bbox]

\* C1: the image ids of a returned split are the ranks of the resolvable
\* base names in sorted order, 1..N, each once, whatever the order of the
\* lines of the split file, their repetitions and the names it lists that
\* are not on disk, which give no image and no annotation.
C1_ImageIdIsRankOfName ==
    pc = "returned" =>
        LET names == {s \in image_stems : Resolvable(s)}
            N == Cardinality(names)
        IN /\ (ListedNames # {} => image_stems = ListedNames)
           /\ Len(images) = N
           /\ \A i \in 1..N : images[i].id = i
           /\ \A s \in names :
                \E i \in 1..N :
                    /\ images[i].file_name.stem = s
                    /\ images[i].id = RankIn(s, names)
           /\ \A k \in 1..Len(anns) : anns[k].image_id \in 1..N

\* C1 witness: two images returned from a split file that lists the names
\* out of order, and a name that is not on disk.
C1_Witness ==
    /\ pc = "returned"
    /\ Len(images) = 2
    /\ \E i, j \in 1..Len(splitFile.lines) :
          i < j /\ StrLess(strip(splitFile.lines[j]), strip(splitFile.lines[i]))
    /\ \E s \in ListedNames : ~Resolvable(s)

\* C2: the annotation ids are 1..M in emission order, at every step of the
\* aggregation, for the records of CSV rows and the full-image ones alike.
C2_AnnotationIdsDense ==
    /\ \A k \in 1..Len(anns) : anns[k].id = k
    /\ ann_id_counter = Len(anns) + 1

\* C2 witness: a returned split of two images, one with two boxes from its
\* CSV and one with a full-image annotation.
C2_Witness ==
    /\ pc = "returned"
    /\ Len(images) = 2
    /\ Len(anns) = 3
    /\ \E k \in 1..3 : anns[k].bbox[1] = 1
    /\ \E k \in 1..3 : anns[k].bbox = <<0, 0, images[anns[k].image_id].width,
                                        images[anns[k].image_id].height>>

\* C3: every annotation of a returned split refers to an image of the
\* split, the one whose annotation file, or the lack of one, it comes from.
C3_AnnotationRefersToItsImage ==
    pc = "returned" =>
        /\ \A k \in 1..Len(anns) : \E i \in 1..Len(images) : images[i].id = anns[k].image_id
        /\ \A i \in 1..Len(images) :
              LET boxes == parse_csv_boxes(CsvOf(images[i])).boxes
                  mine == AnnsOf(images[i].id)
              IN IF boxes # <<>>
                 THEN Bboxes(mine) = [k \in 1..Len(boxes) |-> boxes[k].bbox]
                 ELSE Bboxes(mine) = << <<0, 0, images[i].width, images[i].height>> >>

\* C3 witness: two images returned, the second one with the CSV boxes.
C3_Witness ==
    /\ pc = "returned"
    /\ Len(images) = 2
    /\ Len(AnnsOf(1)) = 1
    /\ Len(AnnsOf(2)) = 2

\* The rows of an annotation file that give a box, as csv.DictReader rows.
AcceptedRows(csv) ==
    IF csv.exists
    THEN SelectSeq(DictReader(csv), LAMBDA row : parse_row(row).kind = "box")
    ELSE <<>>

\* C4: an image whose CSV has accepted rows has one annotation for each of
\* them; an image without CSV, or whose CSV has no accepted row, has the one
\* full-image annotation, [0, 0, width, height] with the default category
\* of its subcategory. Every image has an annotation.
C4_OneRecordPerAcceptedRowOrOneFullImage ==
    pc = "returned" =>
        \A i \in 1..Len(images) :
            LET img == images[i]
                accepted == AcceptedRows(CsvOf(img))
                mine == AnnsOf(img.id)
            IN /\ Len(mine) >= 1
               /\ IF Len(accepted) >= 1
                  THEN Len(mine) = Len(accepted)
                  ELSE /\ Len(mine) = 1
                       /\ mine[1].bbox = <<0, 0, img.width, img.height>>
                       /\ mine[1].category_id =
                            (IF img.file_name.subcategory = "background" THEN 2 ELSE 1)

\* C4 witness: an image returned whose CSV has two rows, of which one is
\* accepted, and whose one annotation is that row's box.
C4_Witness ==
    /\ pc = "returned"
    /\ Len(images) = 1
    /\ Len(CsvOf(images[1]).rows) = 2
    /\ Len(AcceptedRows(CsvOf(images[1]))) = 1
    /\ Len(anns) = 1
    /\ anns[1].bbox # <<0, 0, images[1].width, images[1].height>>

\* The row has a label: a label column, and a cell in it.
SuppliesLabel(row) == "label" \in DOMAIN row /\ row["label"] # None

\* C5: the category of an annotation of an accepted row is the row's label
\* when it has one, and else the default category of the subcategory of
\* the image (healthy 1, background 2).
C5_CategoryIsLabelOrSubcategoryDefault ==
    pc = "returned" =>
        \A i \in 1..Len(images) :
            LET img == images[i]
                accepted == AcceptedRows(CsvOf(img))
                mine == AnnsOf(img.id)
            IN Len(accepted) >= 1 =>
                 \A k \in 1..Len(accepted) :
                    /\ k <= Len(mine)
                    /\ mine[k].category_id =
                         (IF SuppliesLabel(accepted[k])
                          THEN IntLit[accepted[k]["label"].s]
                          ELSE IF img.file_name.subcategory = "background" THEN 2 ELSE 1)

\* C6: a row that raises a parse error is skipped: when the aggregation
\* parses the annotation file of an image, parse_csv_boxes returns, with
\* the boxes of the rows that are acceptable.
C6_BadRowsAreSkipped ==
    pc = "annotate" =>
        LET csv == csvFiles[csv_path(cur.subcategory, cur.stem)]
            accepted == AcceptedRows(csv)
        IN parse_csv_boxes(csv) =
              [raised |-> FALSE,
               boxes |-> [k \in 1..Len(accepted) |-> parse_row(accepted[k]).box]]

\* C7: every annotation has a box with x >= 0, y >= 0, width > 0 and
\* height > 0.
C7_BoxIsInTheFirstQuadrant ==
    \A k \in 1..Len(anns) :
        /\ anns[k].bbox[1] >= 0
        /\ anns[k].bbox[2] >= 0
        /\ anns[k].bbox[3] > 0
        /\ anns[k].bbox[4] > 0

\* C8: the area of every annotation is the width of its box times its height.
C8_AreaIsWidthTimesHeight ==
    \A k \in 1..Len(anns) : anns[k].area = anns[k].bbox[3] * anns[k].bbox[4]

\* C8 witness: two annotations returned for the two rows of a CSV.
C8_Witness ==
    /\ pc = "returned"
    /\ Len(anns) = 2
    /\ Len(AcceptedRows(CsvOf(images[1]))) = 2

\* C9: with no name listed, every image file of the two subcategories
\* under a tried extension has the image record of its base name; with a
\* name listed, only listed names have one.
C9_FallbackFindsEveryImage ==
    pc = "returned" =>
        IF ListedNames = {}
        THEN \A p \in imageFiles :
                (p.dir \in {"healthy", "background"} /\ p.ext \in Range(Exts)) =>
                    \E i \in 1..Len(images) : images[i].file_name.stem = p.stem
        ELSE \A i \in 1..Len(images) : images[i].file_name.stem \in ListedNames

IndexIn(seq, x) == CHOOSE k \in 1..Len(seq) : seq[k] = x

\* The file q is tried before the file p of the same base name: healthy
\* before background, and within a subcategory the earlier extension.
TriedBefore(q, p) ==
    \/ q.dir = "healthy" /\ p.dir = "background"
    \/ q.dir = p.dir /\ IndexIn(Exts, q.ext) < IndexIn(Exts, p.ext)

\* C10: the image record of a base name is that of the first file among
\* healthy then background and, within one, the extensions in their order;
\* there is one record for a base name; its full-image annotation has the
\* category of that subcategory and its boxes are those of the CSV of that
\* subcategory. A base name in both subcategories is resolved to healthy.
C10_FirstMatchDecides ==
    pc = "returned" =>
        /\ \A i \in 1..Len(images) :
              LET f == images[i].file_name
                  file == [dir |-> f.subcategory, stem |-> f.stem, ext |-> f.ext]
                  boxes == parse_csv_boxes(csvFiles[<<f.subcategory, f.stem>>]).boxes
                  mine == AnnsOf(images[i].id)
              IN /\ file \in imageFiles
                 /\ f.subcategory \in {"healthy", "background"}
                 /\ \A q \in imageFiles :
                       (q.stem = f.stem /\ q.dir \in {"healthy", "background"}
                            /\ q.ext \in Range(Exts)) => ~TriedBefore(q, file)
                 /\ \A j \in 1..Len(images) : j # i => images[j].file_name.stem # f.stem
                 /\ IF boxes = <<>>
                    THEN /\ Len(mine) = 1
                         /\ mine[1].category_id = (IF f.subcategory = "healthy" THEN 1 ELSE 2)
                    ELSE Bboxes(mine) = [k \in 1..Len(boxes) |-> boxes[k].bbox]
        /\ \A s \in image_stems :
              (/\ \E p \in imageFiles : p.stem = s /\ p.dir = "healthy"
               /\ \E p \in imageFiles : p.stem = s /\ p.dir = "background")
              => \E i \in 1..Len(images) :
                    /\ images[i].file_name.stem = s
                    /\ images[i].file_name.subcategory = "healthy"

\* C10 witness: a base name with an image in both subcategories and a CSV
\* with boxes in background only is returned with one full-image annotation.
C10_Witness ==
    /\ pc = "returned"
    /\ \E s \in Stems :
          /\ \E p \in imageFiles : p.stem = s /\ p.dir = "healthy"
          /\ \E p \in imageFiles : p.stem = s /\ p.dir = "background"
          /\ csvFiles[<<"background", s>>] = CsvTwoBoxes
    /\ Len(images) = 1
    /\ Len(anns) = 1
    /\ anns[1].category_id = 1

\* The base names of a split by its file in sets/, or by the scan of the
\* images when it lists none, that are on disk.
ResolvableNamesOf(split) ==
    LET listed == {strip(l) : l \in Range(sets_dir[split].lines)} \ {<<>>}
        considered == IF listed # {} THEN listed ELSE scan_image_stems(imageFiles)
    IN {s \in considered : Resolvable(s)}

WritesOf(file) == {k \in 1..Len(out_files) : out_files[k].file = file}

\* C11: a split that resolves no image is not fatal: no file is written for
\* it, per split or combined, and when main returns every other split of
\* the list has its file, and its combined file with --combined.
C11_EmptySplitIsSkipped ==
    /\ \A k \in 1..Len(out_files) :
          /\ out_files[k].dict.images # <<>>
          /\ ResolvableNamesOf(out_files[k].file[2]) # {}
    /\ (category_root_exists /\ pc # "raised") => exit_status \in {-1, 0}
    /\ main_pc = "done" =>
          \A i \in 1..Len(args.splits) :
              LET split == args.splits[i]
              IN ResolvableNamesOf(split) # {} =>
                    /\ WritesOf(<<"blueberries", split>>) # {}
                    /\ args.combined => WritesOf(<<"combined", split>>) # {}

\* C11 witness: main returns from a list of a split without images and,
\* after it, one with images, with --combined: two files, none of the first.
C11_Witness ==
    /\ main_pc = "done"
    /\ Len(args.splits) = 2
    /\ args.combined
    /\ ResolvableNamesOf(args.splits[1]) = {}
    /\ ResolvableNamesOf(args.splits[2]) # {}
    /\ Len(out_files) = 2

\* C12: without the directory <root>/blueberries main exits with a status
\* other than 0 before it aggregates a split, and writes no file.
C12_MissingRootIsFatal ==
    ~category_root_exists =>
        /\ main_pc \in {"start", "exited"}
        /\ pc = "idle"
        /\ out_files = <<>>
        /\ exit_status # 0
        /\ main_pc = "exited" => exit_status = 1

\* C12 witness: main has exited for want of the category root.
C12_Witness ==
    /\ ~category_root_exists
    /\ main_pc = "exited"
    /\ exit_status = 1

\* What is written is the whole result of the split: an image for every
\* resolvable name, in order, and the annotations of every one of them.
FullyFormed(w) ==
    LET imgs == w.dict.images
        as == w.dict.annotations
    IN /\ Len(imgs) = Cardinality(ResolvableNamesOf(w.file[2]))
       /\ \A i \in 1..Len(imgs) :
             /\ imgs[i].id = i
             /\ imgs[i].file_name.stem \in ResolvableNamesOf(w.file[2])
             /\ \E k \in 1..Len(as) : as[k].image_id = i
       /\ \A k \in 1..Len(as) : as[k].id = k /\ as[k].image_id \in 1..Len(imgs)

\* A split whose aggregation raises has no file.
NoFileOfAFailedSplit ==
    pc = "raised" => \A k \in 1..Len(out_files) : out_files[k].file[2] # args.splits[split_i]

\* C13 as stated: every file is written fully formed, after the collection
\* of its split; a split that fails has no file; and no file is written
\* more than once in a run.
C13_EachFileWrittenOnce ==
    /\ \A k \in 1..Len(out_files) : FullyFormed(out_files[k])
    /\ NoFileOfAFailedSplit
    /\ \A j, k \in 1..Len(out_files) : j # k => out_files[j].file # out_files[k].file

\* C13 amended: every file is written fully formed, after the collection
\* of its split; a split that fails has no file; and a file is written once
\* for each time its split is named in the list that main has gone through,
\* so more than once only when the list names the split more than once.
C13_EachFileWrittenOncePerListing ==
    /\ \A k \in 1..Len(out_files) :
          LET f == out_files[k].file
          IN /\ f[1] \in {"blueberries", "combined"}
             /\ f[2] \in Range(args.splits)
             /\ Cardinality(WritesOf(f)) <=
                    Cardinality({i \in 1..Len(args.splits) : args.splits[i] = f[2]})
    /\ \A k \in 1..Len(out_files) : FullyFormed(out_files[k])
    /\ NoFileOfAFailedSplit
    /\ main_pc = "done" =>
          \A i \in 1..Len(args.splits) :
              ResolvableNamesOf(args.splits[i]) # {} =>
                  Cardinality(WritesOf(<<"blueberries", args.splits[i]>>)) =
                      Cardinality({j \in 1..Len(args.splits) : args.splits[j] = args.splits[i]})

\* C13 witness: main returns from a list of two different splits with
\* images, with --combined, and has written four different files.
C13_Witness ==
    /\ main_pc = "done"
    /\ Len(out_files) = 4
    /\ \A j, k \in 1..4 : j # k => out_files[j].file # out_files[k].file
    /\ \E k \in 1..4 : Len(out_files[k].dict.annotations) = 2

\* C14: the category_id of every annotation is a positive integer, also
\* when it comes from a CSV row whose label is 0, as json_to_csv writes it
\* for category 0.
C14_CategoryIdIsPositive ==
    \A k \in 1..Len(anns) : anns[k].category_id > 0

\* The file's text, without the reader: the cell of a row under a column,
\* if the header has the column and the row reaches it.
HasCell(csv, r, c) ==
    \E k \in 1..Len(csv.header) : csv.header[k] = c /\ k <= Len(r)

Cell(csv, r, c) ==
    r[CHOOSE k \in 1..Len(csv.header) : csv.header[k] = c]

\* The first column of the synonyms that the header has, "" if none.
Supplying(csv, synonyms) ==
    LET has == {i \in 1..Len(synonyms) : synonyms[i] \in Range(csv.header)}
    IN IF has = {} THEN ""
       ELSE synonyms[CHOOSE i \in has : \A j \in has : i <= j]

\* A row without item information: no 'item' column, and no '#item' cell.
IsComment(csv, r) ==
    /\ "item" \notin Range(csv.header)
    /\ ~HasCell(csv, r, "#item")

\* The row supplies a number for the quantity, under the first of its
\* synonymous columns that the file has.
SuppliesNumber(csv, r, synonyms) ==
    LET c == Supplying(csv, synonyms)
    IN c # "" /\ HasCell(csv, r, c) /\ Cell(csv, r, c) \in DOMAIN FloatLit

Supplied(csv, r, synonyms) == FloatLit[Cell(csv, r, Supplying(csv, synonyms))]

\* A column that is optional: absent from the file, or a number in the row.
NumberOrAbsent(csv, r, c, lit) ==
    c \in Range(csv.header) => HasCell(csv, r, c) /\ Cell(csv, r, c) \in DOMAIN lit

WidthKeys == <<"width", "w", "dx">>
HeightKeys == <<"height", "h", "dy">>

\* The rows of the file that are accepted, by the file's text.
Accepted(csv, r) ==
    /\ r # <<>>
    /\ ~IsComment(csv, r)
    /\ SuppliesNumber(csv, r, WidthKeys) /\ Supplied(csv, r, WidthKeys) > 0
    /\ SuppliesNumber(csv, r, HeightKeys) /\ Supplied(csv, r, HeightKeys) > 0
    /\ NumberOrAbsent(csv, r, "x", FloatLit)
    /\ NumberOrAbsent(csv, r, "y", FloatLit)
    /\ NumberOrAbsent(csv, r, "label", IntLit)

\* C15: when parse_csv_boxes returns, its boxes are the accepted rows of
\* the file in file order: rows that are no comment (the file has an
\* 'item' column, or the row a '#item' cell) and supply a number > 0 for
\* the width under width / w / dx and for the height under height / h / dy,
\* which are the box's width and height. A comment row gives no box.
C15_BoxesAreTheAcceptedRows ==
    pc = "annotate" =>
        LET csv == csvFiles[csv_path(cur.subcategory, cur.stem)]
            result == parse_csv_boxes(csv)
            rows == SelectSeq(csv.rows, LAMBDA r : Accepted(csv, r))
        IN ~result.raised =>
              /\ Len(result.boxes) = Len(rows)
              /\ \A k \in 1..Len(rows) :
                    /\ result.boxes[k].bbox[3] = Supplied(csv, rows[k], WidthKeys)
                    /\ result.boxes[k].bbox[4] = Supplied(csv, rows[k], HeightKeys)
                    /\ result.boxes[k].bbox[3] > 0
                    /\ result.boxes[k].bbox[4] > 0
              /\ (\A k \in 1..Len(csv.rows) : IsComment(csv, csv.rows[k])) => result.boxes = <<>>

\* C15 witness: an image returned whose CSV names the sides dx and dy or w
\* and h, and has two rows, of which the one with both sides > 0 gave the
\* one annotation.
C15_Witness ==
    /\ pc = "returned"
    /\ Len(images) = 1
    /\ images[1].width = 1
    /\ "width" \notin Range(CsvOf(images[1]).header)
    /\ Len(CsvOf(images[1]).rows) = 2
    /\ Cardinality({k \in 1..2 : Accepted(CsvOf(images[1]), CsvOf(images[1]).rows[k])}) = 1
    /\ Len(anns) = 1
    /\ anns[1].bbox = <<0, 0, 2, 3>>

\* C16: a copy step of a migrator never overwrites a target file that is
\* there: every file of the target stays, with the contents it has, in
\* every step of reorganize_blueberries, reorganize_backgrounds and
\* move_to_subcategory, in a first run and in a second one.
C16_ExistingTargetsAreNeverOverwritten ==
    [][\A t \in DOMAIN target_files :
          t \in DOMAIN target_files' /\ target_files'[t] = target_files[t]]_vars

====
